---- MODULE Spec2Model ----
(***************************************************************************)
(* Model of the CodeOutput component of mage_ai/frontend: the reduction of *)
(* the kernel output messages into combinedMessages, the classification of *)
(* every fragment into a display element, and the executedAndIdle flag.    *)
(*                                                                         *)
(* A string is a sequence of tokens.  A token is one character, except     *)
(* that a complete JSON text is one token (it only matters whether a       *)
(* string is exactly one JSON text, and which) and that the marker         *)
(* [__internal_output__] is the two tokens MarkerHead, MarkerTail, so that *)
(* a marker can be split over two strings as any substring can.            *)
(***************************************************************************)
EXTENDS Integers, Sequences, FiniteSets

VARIABLES messages, status, isInProgress, runCount, runStartTime, runEndTime,
          phase, combinedMessages, rendered, executedAndIdle

vars == <<messages, status, isInProgress, runCount, runStartTime, runEndTime,
          phase, combinedMessages, rendered, executedAndIdle>>

props == <<status, isInProgress, runCount, runStartTime, runEndTime>>

(* ------------------------------ bounds -------------------------------- *)
MaxMsgs == 3
MaxRunMsgs == 2
MaxRunCount == 1
MaxTime == 1

(* ------------------------------ strings ------------------------------- *)
MarkerHead == "[__internal_"
MarkerTail == "output__]"
Marker == <<MarkerHead, MarkerTail>>
Newline == "\n"
Comma == ","
Undefined == "undefined"

\* JSON texts, one token each.
JsonWrappedTable == "{data:{columns:[c],rows:[[a]]},type:table}"
JsonWrappedEmptyTable == "{data:{columns:[c],rows:[]},type:table}"
JsonWrappedArray == "{data:[[a,b]],type:table}"
JsonWrappedText == "{data:a,type:text}"
JsonTable == "{columns:[c],rows:[[a]]}"

JsonTokens == {JsonWrappedTable, JsonWrappedEmptyTable, JsonWrappedArray,
               JsonWrappedText, JsonTable}

\* What createDataTableElement reads of a parsed value: whether it can be
\* destructured into an object with a rows array, and how many rows.
TableOf(n) == [hasRows |-> TRUE, rows |-> n]
NoTable == [hasRows |-> FALSE, rows |-> 0]

\* JSON.parse of a JSON text: the top-level type field, the top-level data
\* field seen as a table, and the value itself seen as a table.
JsonParse(tok) ==
  CASE tok = JsonWrappedTable -> [type |-> "table", data |-> TableOf(1), self |-> NoTable]
    [] tok = JsonWrappedEmptyTable -> [type |-> "table", data |-> TableOf(0), self |-> NoTable]
    [] tok = JsonWrappedArray -> [type |-> "table", data |-> NoTable, self |-> NoTable]
    [] tok = JsonWrappedText -> [type |-> "text", data |-> NoTable, self |-> NoTable]
    [] tok = JsonTable -> [type |-> Undefined, data |-> NoTable, self |-> TableOf(1)]

RECURSIVE Join(_, _)
\* Array.prototype.join: the strings of a, sep between two of them.
Join(a, sep) ==
  IF Len(a) = 0 THEN <<>>
  ELSE IF Len(a) = 1 THEN a[1]
  ELSE a[1] \o <<sep>> \o Join(Tail(a), sep)

\* First position where the marker starts in s, 0 when there is none.
MarkerIndex(s) ==
  LET hits == {i \in 1..(Len(s) - 1) : s[i] = MarkerHead /\ s[i + 1] = MarkerTail}
  IN IF hits = {} THEN 0 ELSE CHOOSE i \in hits : \A j \in hits : i <= j

\* s.match(internalOutputRegex) is not null.
MatchesInternalOutput(s) == MarkerIndex(s) # 0

\* s.replace(internalOutputRegex, ''): the first marker removed.
StripInternalOutput(s) ==
  LET i == MarkerIndex(s)
  IN IF i = 0 THEN s ELSE SubSeq(s, 1, i - 1) \o SubSeq(s, i + 2, Len(s))

RECURSIVE TrimLeft(_)
TrimLeft(s) == IF Len(s) > 0 /\ s[1] = Newline THEN TrimLeft(Tail(s)) ELSE s

RECURSIVE TrimRight(_)
TrimRight(s) ==
  IF Len(s) > 0 /\ s[Len(s)] = Newline THEN TrimRight(SubSeq(s, 1, Len(s) - 1)) ELSE s

\* JSON.parse accepts one JSON text with white space around it.
JsonText(s) == TrimRight(TrimLeft(s))

isJsonString(s) == Len(JsonText(s)) = 1 /\ JsonText(s)[1] \in JsonTokens

(* ------------------------------- data --------------------------------- *)
\* The data field of a message: absent, a string, or an array of strings.
NoData == [k |-> "none", s |-> <<>>, a |-> <<>>]
Str(s) == [k |-> "str", s |-> s, a |-> <<>>]
Arr(a) == [k |-> "arr", s |-> <<>>, a |-> a]

IMAGE_PNG == "image/png"
TABLE == "table"
TEXT == "text"
TEXT_PLAIN == "text/plain"
DataTypeEnum == {IMAGE_PNG, TABLE, TEXT, TEXT_PLAIN}
DATA_TYPE_TEXTLIKE == {TEXT, TEXT_PLAIN}

EXECUTED == "executed"
StatusTypeEnum == {EXECUTED, "not_executed"}

\* combineTextData: an array joined with newlines, anything else unchanged.
combineTextData(data) ==
  IF data.k = "arr" THEN Str(Join(data.a, Newline)) ELSE data

\* String(data), the conversion that `+=` applies to its left operand.
StringOf(data) ==
  CASE data.k = "str" -> data.s
    [] data.k = "arr" -> Join(data.a, Comma)
    [] data.k = "none" -> <<Undefined>>

(* ----------------------------- messages ------------------------------- *)
\* A KernelOutputType object, with the fields CodeOutput reads; msg_id is
\* the position of the message in the run.
Message(id, type, data) == [msg_id |-> id, type |-> type, data |-> data]

\* The data values messages of every type are drawn from.
CommonData ==
  { NoData,
    Str(<<"a">>),
    Arr(<< <<>>, <<"b">>, <<>> >>),
    Str(Marker \o <<JsonWrappedTable>>) }

\* More data values, for messages of type text.
TextData ==
  { Str(<<>>),
    Arr(<<>>),
    Str(Marker \o <<JsonWrappedEmptyTable>>),
    Str(Marker \o <<JsonWrappedArray>>),
    Str(Marker \o <<JsonWrappedText>>),
    Arr(<< Marker \o <<JsonWrappedTable>>, <<"a">> >>),
    Str(<<MarkerHead>>),
    Str(<<MarkerTail>>) }

\* More data values, for messages of type table.
TableData == { Str(<<JsonTable>>) }

\* The <<type, data>> pairs messages are drawn from.
Inputs ==
  (DataTypeEnum \X CommonData) \cup ({TEXT} \X TextData) \cup ({TABLE} \X TableData)

(* --------------------- combinedMessages (reduce) ---------------------- *)
\* The reduce runs on objects: st.msgs are the message objects, st.arr the
\* accumulator.  An element of arr with ref = 0 is an object of its own
\* (obj); with ref = i it is the very object messages[i].
Deref(st, k) ==
  IF st.arr[k].ref = 0 THEN st.arr[k].obj ELSE st.msgs[st.arr[k].ref]

Last(st) == Deref(st, Len(st.arr))

\* last.data = data, on whatever object last is.
SetLastData(st, data) ==
  LET n == Len(st.arr)
      r == st.arr[n].ref
  IN IF r = 0 THEN [st EXCEPT !.arr[n].obj.data = data]
     ELSE [st EXCEPT !.msgs[r].data = data]

\* Mutant of Push: curr itself is updated and pushed, not a copy of it.
PushAliased(st, obj) ==
  [st EXCEPT !.msgs[obj.msg_id] = obj,
             !.arr = Append(@, [ref |-> obj.msg_id, obj |-> obj])]

\* arr.push({ ...curr, ... }): a new object with the given fields.
Push(st, obj) ==
  [st EXCEPT !.arr = Append(@, [ref |-> 0, obj |-> obj])]

\* Mutant of AppendToLast: a newline is put between the two texts.
AppendToLastOnNewLine(st, text) ==
  SetLastData(st, Str(StringOf(Last(st).data) \o <<Newline>> \o text))

\* last.data += text
AppendToLast(st, text) ==
  SetLastData(st, Str(StringOf(Last(st).data) \o text))

Throw(st) == [st EXCEPT !.thrown = TRUE]

\* One call of the reducer, on (arr, curr).
ReduceStep(st, curr) ==
  LET lastType == IF Len(st.arr) = 0 THEN Undefined ELSE Last(st).type
      combined == combineTextData(curr.data)
      sameTextLike == lastType \in DATA_TYPE_TEXTLIKE /\ lastType = curr.type
      currTextLike == curr.type \in DATA_TYPE_TEXTLIKE
  IN IF sameTextLike /\ combined.k = "none" THEN Throw(st)
     ELSE IF sameTextLike /\ ~MatchesInternalOutput(combined.s)
       THEN AppendToLast(st, combined.s)
     ELSE IF currTextLike /\ combined.k = "none" THEN Throw(st)
     ELSE IF currTextLike /\ ~MatchesInternalOutput(combined.s)
       THEN Push(st, [curr EXCEPT !.data = combined])
     ELSE Push(st, curr)

RECURSIVE ReduceFrom(_, _)
ReduceFrom(st, i) ==
  IF st.thrown \/ i > Len(st.msgs) THEN st
  ELSE ReduceFrom(ReduceStep(st, st.msgs[i]), i + 1)

\* messages.reduce(..., [])
Reduce(msgs) == ReduceFrom([msgs |-> msgs, arr |-> <<>>, thrown |-> FALSE], 1)

\* The objects of the accumulator, as values.
Entries(st) == [k \in 1..Len(st.arr) |-> Deref(st, k)]

(* --------------------------- display elements -------------------------- *)
TypeError == "TypeError"
NoElement == "none"
DataTableElement == "DataTable"
AnsiElement == "Ansi"
ImageElement == "img"

\* createDataTableElement({ columns, index, rows }): rows.length >= 1 &&
\* <DataTable/>; reading rows.length of a value without rows throws.
createDataTableElement(table) ==
  IF ~table.hasRows THEN TypeError
  ELSE IF table.rows >= 1 THEN DataTableElement
  ELSE NoElement

\* The displayElement of one fragment of an entry of type dataType.
DisplayElement(data, dataType) ==
  IF MatchesInternalOutput(data)
    THEN LET rawString == StripInternalOutput(data)
         IN IF isJsonString(rawString)
              THEN LET parsed == JsonParse(JsonText(rawString)[1])
                   IN IF parsed.type = TABLE
                        THEN createDataTableElement(parsed.data)
                        ELSE NoElement
              ELSE NoElement
  ELSE IF dataType = TABLE
    THEN createDataTableElement(
           IF isJsonString(data) THEN JsonParse(JsonText(data)[1]).self ELSE NoTable)
  ELSE IF dataType \in DATA_TYPE_TEXTLIKE THEN AnsiElement
  ELSE IF dataType = IMAGE_PNG THEN ImageElement
  ELSE NoElement

\* dataArray of an entry: its data as an array, the empty strings removed;
\* empty when the entry is skipped (no data, or data of length 0).
DataArray(entry) ==
  LET d == entry.data
  IN IF d.k = "none" THEN <<>>
     ELSE IF d.k = "str" THEN (IF Len(d.s) = 0 THEN <<>> ELSE <<d.s>>)
     ELSE SelectSeq(d.a, LAMBDA x : Len(x) > 0)

\* outputRowSharedProps of fragment idxInner of entry idx (both from 0).
OutputRowSharedProps(idx, idxInner, dataArrayLength, numberOfMessages) ==
  [first |-> idx = 0 /\ idxInner = 0,
   last |-> idx = numberOfMessages - 1 /\ idxInner = dataArrayLength - 1]

\* The rows one entry maps to, one per fragment of its dataArray.
EntryRows(entry, idx, numberOfMessages) ==
  LET dataArray == DataArray(entry)
  IN [j \in 1..Len(dataArray) |->
        LET shared == OutputRowSharedProps(idx, j - 1, Len(dataArray), numberOfMessages)
        IN [idx |-> idx, idxInner |-> j - 1,
            kind |-> DisplayElement(dataArray[j], entry.type),
            data |-> dataArray[j],
            first |-> shared.first, last |-> shared.last]]

RECURSIVE RowsFrom(_, _, _)
RowsFrom(entries, k, numberOfMessages) ==
  IF k > Len(entries) THEN <<>>
  ELSE EntryRows(entries[k], k - 1, numberOfMessages)
         \o RowsFrom(entries, k + 1, numberOfMessages)

\* combinedMessages.map(...), flattened.
Rows(entries, numberOfMessages) == RowsFrom(entries, 1, numberOfMessages)

(* ----------------------------- CodeOutput ------------------------------ *)
\* executedAndIdle
ExecutedAndIdle(st, inProgress, count, startTime, endTime, numberOfMessages) ==
  \/ EXECUTED = st
  \/ (~inProgress /\ count = 0 /\ numberOfMessages >= 1)
  \/ (~inProgress /\ count >= 1 /\ endTime >= startTime)

\* What a render that throws leaves: the component shows nothing.
Thrown(msgs) ==
  [phase |-> "thrown", msgs |-> msgs, combinedMessages |-> <<>>,
   rendered |-> <<>>, executedAndIdle |-> FALSE]

\* One call of CodeOutput with the given props.
CodeOutput(msgs, st, inProgress, count, startTime, endTime) ==
  LET numberOfMessages == Len(msgs)
  IN IF Len(msgs) = 0 THEN Thrown(msgs)   \* messages[0].type
     ELSE
       LET reduced == Reduce(msgs)
           entries == Entries(reduced)
           rows == Rows(entries, numberOfMessages)
       IN IF reduced.thrown THEN Thrown(reduced.msgs)
          ELSE IF \E j \in 1..Len(rows) : rows[j].kind = TypeError
            THEN Thrown(reduced.msgs)
          ELSE [phase |-> "rendered", msgs |-> reduced.msgs,
                combinedMessages |-> entries, rendered |-> rows,
                executedAndIdle |-> ExecutedAndIdle(st, inProgress, count, startTime,
                                                    endTime, numberOfMessages)]

(* ------------------------------ actions ------------------------------- *)
Init ==
  /\ messages = <<>>
  /\ status = "not_executed"
  /\ isInProgress = FALSE
  /\ runCount = 0
  /\ runStartTime = 0
  /\ runEndTime = 0
  /\ phase = "init"
  /\ combinedMessages = <<>>
  /\ rendered = <<>>
  /\ executedAndIdle = FALSE

\* The component is called with msgs and the given run props.
RenderWith(msgs, st, inProgress, count, startTime, endTime) ==
  LET out == CodeOutput(msgs, st, inProgress, count, startTime, endTime)
  IN /\ messages' = out.msgs
     /\ phase' = out.phase
     /\ combinedMessages' = out.combinedMessages
     /\ rendered' = out.rendered
     /\ executedAndIdle' = out.executedAndIdle
     /\ status' = st
     /\ isInProgress' = inProgress
     /\ runCount' = count
     /\ runStartTime' = startTime
     /\ runEndTime' = endTime

\* A message arrives and the component is rendered with all the messages.
ReceiveMessage(type, data, max) ==
  /\ phase # "thrown"
  /\ Len(messages) < max
  /\ RenderWith(Append(messages, Message(Len(messages) + 1, type, data)),
                status, isInProgress, runCount, runStartTime, runEndTime)

\* The component is rendered again with a new array of the same message
\* objects and the same props.
Rerender ==
  /\ phase # "thrown"
  /\ RenderWith(messages, status, isInProgress, runCount, runStartTime, runEndTime)

\* The run props change and the component is rendered again.
UpdateRun(st, inProgress, count, startTime, endTime) ==
  /\ phase # "thrown"
  /\ <<st, inProgress, count, startTime, endTime>> # props
  /\ RenderWith(messages, st, inProgress, count, startTime, endTime)

Receive == \E input \in Inputs : ReceiveMessage(input[1], input[2], MaxMsgs)

Next == Receive \/ Rerender

Spec == Init /\ [][Next]_vars

\* The run props vary, over runs of a few text messages.
RunDataValues == {Str(<<"a">>), Str(<<>>)}

ReceiveRun == \E data \in RunDataValues : ReceiveMessage(TEXT, data, MaxRunMsgs)

Update ==
  \E st \in StatusTypeEnum, inProgress \in BOOLEAN, count \in 0..MaxRunCount,
     startTime \in 0..MaxTime, endTime \in 0..MaxTime :
       UpdateRun(st, inProgress, count, startTime, endTime)

NextRun == ReceiveRun \/ Update \/ Rerender

SpecRun == Init /\ [][NextRun]_vars

(* ------------------------------- claims -------------------------------- *)
HasData(m) == m.data.k # "none"
CombinedText(m) == combineTextData(m.data).s
Tagged(m) == HasData(m) /\ MatchesInternalOutput(CombinedText(m))
TextLike(m) == m.type \in DATA_TYPE_TEXTLIKE
EmptyPayload(m) == m.data \in {NoData, Str(<<>>), Arr(<<>>)}
Instructions == SelectSeq(rendered, LAMBDA r : r.kind # NoElement)
IsPartOf(sub, s) ==
  \E p \in 0..(Len(s) - Len(sub)) : SubSeq(s, p + 1, p + Len(sub)) = sub
\* The text the claims call combineTextData(payload).
NewlineJoined(data) == IF data.k = "arr" THEN Join(data.a, Newline) ELSE data.s

\* C1 (isolation): whenever the run is rendered, every message whose
\* combined text contains the marker is a display entry of its own, holding
\* exactly that message's type and payload.
IsolationLaw ==
  phase = "rendered" =>
    \A i \in 1..Len(messages) :
      Tagged(messages[i]) =>
        \E k \in 1..Len(combinedMessages) : combinedMessages[k] = messages[i]

\* C2 (merge law): two text-like messages of the same type, neither holding
\* the marker, reduce to one entry whose text is the newline-joined text of
\* the first directly followed by the newline-joined text of the second.
MergeLaw ==
  (/\ Len(messages) = 2
   /\ TextLike(messages[1]) /\ messages[2].type = messages[1].type
   /\ HasData(messages[1]) /\ HasData(messages[2])
   /\ ~Tagged(messages[1]) /\ ~Tagged(messages[2]))
  => LET reduced == Reduce(messages)
     IN /\ ~reduced.thrown
        /\ Entries(reduced) =
             << [msg_id |-> 1, type |-> messages[1].type,
                 data |-> Str(NewlineJoined(messages[1].data)
                              \o NewlineJoined(messages[2].data))] >>

\* C2 witness: an array payload and a string payload have been merged.
MergeLawWitness ==
  /\ phase = "rendered"
  /\ Len(messages) = 2
  /\ messages[1] = Message(1, TEXT, Arr(<< <<>>, <<"b">>, <<>> >>))
  /\ messages[2] = Message(2, TEXT, Str(<<"a">>))
  /\ combinedMessages = << Message(1, TEXT, Str(<<Newline, "b", Newline, "a">>)) >>

\* C3 (boundary flags): every render instruction has first = TRUE exactly
\* when it is fragment 0 of entry 0 and last = TRUE exactly when it is the
\* final fragment of the final display entry.
BoundaryFlags ==
  phase = "rendered" =>
    \A j \in 1..Len(Instructions) :
      LET r == Instructions[j]
      IN /\ r.first = (r.idx = 0 /\ r.idxInner = 0)
         /\ r.last = (/\ r.idx = Len(combinedMessages) - 1
                      /\ r.idxInner = Len(DataArray(combinedMessages[r.idx + 1])) - 1)

\* C4 (no text lost): whenever the run is rendered, the combined text of
\* every text-like message that is not empty and holds no marker is a
\* contiguous part of the text of some Ansi element.
NoTextLost ==
  phase = "rendered" =>
    \A i \in 1..Len(messages) :
      (/\ TextLike(messages[i]) /\ HasData(messages[i])
       /\ CombinedText(messages[i]) # <<>> /\ ~Tagged(messages[i]))
      => \E j \in 1..Len(rendered) :
           /\ rendered[j].kind = AnsiElement
           /\ IsPartOf(CombinedText(messages[i]), rendered[j].data)

\* C5 (zero messages): a render with no message does not fail, yields no
\* entry and no instruction, and still decides finished (true when the
\* status is executed).
ZeroMessagesRendered ==
  (phase # "init" /\ Len(messages) = 0) =>
    /\ phase = "rendered"
    /\ combinedMessages = <<>>
    /\ rendered = <<>>
    /\ (status = EXECUTED => executedAndIdle)

\* C6 (missing or empty payloads): a run made of messages without payload
\* (absent, empty string, empty array) and of plain text messages is
\* rendered without error, no row is made for an empty fragment, and the
\* text of the plain text messages is displayed.
EmptyPayloadsSkipped ==
  (/\ phase # "init"
   /\ Len(messages) >= 1
   /\ \A i \in 1..Len(messages) :
        EmptyPayload(messages[i]) \/ messages[i].data = Str(<<"a">>))
  => /\ phase = "rendered"
     /\ \A j \in 1..Len(rendered) : rendered[j].data # <<>>
     /\ \A i \in 1..Len(messages) :
          (TextLike(messages[i]) /\ ~EmptyPayload(messages[i]))
          => \E j \in 1..Len(rendered) :
               /\ rendered[j].kind = AnsiElement
               /\ IsPartOf(CombinedText(messages[i]), rendered[j].data)

\* C7 (unwrap law): a run of one message, of any type, whose payload is a
\* string holding the marker is rendered without error; it gives exactly
\* one DataTable when the rest of the string is JSON of type table, and no
\* element at all otherwise.  (A wrapped table of zero rows, for which
\* createDataTableElement makes nothing on purpose, is not counted here.)
UnwrapLaw ==
  (/\ phase # "init"
   /\ Len(messages) = 1
   /\ messages[1].data.k = "str"
   /\ MatchesInternalOutput(messages[1].data.s)
   /\ messages[1].data.s # Marker \o <<JsonWrappedEmptyTable>>)
  => LET rawString == StripInternalOutput(messages[1].data.s)
         isTable == /\ isJsonString(rawString)
                    /\ JsonParse(JsonText(rawString)[1]).type = TABLE
     IN /\ phase = "rendered"
        /\ isTable => (Len(Instructions) = 1 /\ Instructions[1].kind = DataTableElement)
        /\ ~isTable => Instructions = <<>>

\* C8 (idempotence): no step changes a message object, and a render of the
\* same messages gives the same combinedMessages again.
ReduceLeavesMessages ==
  [][ /\ \A i \in 1..Len(messages) : messages'[i] = messages[i]
      /\ (phase = "rendered" /\ messages' = messages)
           => combinedMessages' = combinedMessages ]_vars

\* C8 witness: the reducer has appended in place to an entry made from a
\* message with an array payload, and the message still has its array.
ReduceLeavesMessagesWitness ==
  /\ phase = "rendered"
  /\ Len(messages) = 3
  /\ Len(combinedMessages) = 1
  /\ messages[1].data = Arr(<< <<>>, <<"b">>, <<>> >>)
  /\ combinedMessages[1].data.k = "str"
  /\ Len(combinedMessages[1].data.s) > 3

\* C9 (finished decision): after every render, finished is exactly the
\* three-way disjunction over status, isInProgress, runCount, the number of
\* messages and the two times.
FinishedDecision ==
  phase # "init" =>
    executedAndIdle =
      (\/ status = EXECUTED
       \/ (~isInProgress /\ runCount = 0 /\ Len(messages) >= 1)
       \/ (~isInProgress /\ runCount >= 1 /\ runEndTime >= runStartTime))

\* C10 (stable prefix): when a message arrives and both renders succeed,
\* the new entries are the old ones with either one entry appended, made
\* from the new message, or the last entry's combined text extended by the
\* new message's combined text; earlier entries, and the type and first
\* message of the last entry, do not change.
StablePrefix ==
  [][ (/\ phase = "rendered" /\ phase' = "rendered"
       /\ Len(messages') = Len(messages) + 1)
      => LET old == combinedMessages
             new == combinedMessages'
             m == messages'[Len(messages')]
             n == Len(old)
         IN \/ /\ Len(new) = n + 1
               /\ SubSeq(new, 1, n) = old
               /\ new[n + 1].msg_id = m.msg_id
               /\ new[n + 1].type = m.type
            \/ /\ Len(new) = n
               /\ n >= 1
               /\ \A k \in 1..(n - 1) : new[k] = old[k]
               /\ new[n].msg_id = old[n].msg_id
               /\ new[n].type = old[n].type
               /\ new[n].data = Str(NewlineJoined(old[n].data) \o NewlineJoined(m.data))
    ]_vars

====
